---- MODULE Spec2Model ----
(***************************************************************************)
(* neuralmonkey/model/sequence_split.py: SequenceSplitter, a model part    *)
(* that splits the temporal states of a parent TemporalStateful so that    *)
(* the sequence is factor-times longer and factor-times narrower.          *)
(*                                                                         *)
(* Three specifications over the same variables:                           *)
(*   Spec         constructions of SequenceSplitters in one model graph    *)
(*   SpecTensors  accesses to temporal_states, temporal_mask and feed_dict *)
(*                of a splitter over a parent's states and mask            *)
(*   SpecDeps     get_dependencies over a graph of parent links            *)
(***************************************************************************)
EXTENDS Integers, Sequences, FiniteSets, TLC

\* Bounds of the model.
NSplit == 3        \* splitter objects in the graph
MaxB == 2          \* batch size of the parent's tensors
MaxT == 2          \* time steps of the parent's tensors
MaxF == 4          \* feature dimension of the parent's states
MaxFactor == 2     \* factor argument
MaxProj == 2       \* projection_size argument (0 stands for None)
MaxAccess == 2     \* runs of the body of one property of one splitter

\* The parent TemporalStateful handed to the constructor, and another model
\* part the parent may depend on.
Base == 0
Extra == NSplit + 1
Splitters == 1..NSplit

Props == {"temporal_states", "temporal_mask"}
Activations == {"None", "relu"}
ProjSizes == 0..MaxProj
Datasets == {"empty_batch", "batch"}

VARIABLES
    base,       \* the parent: its temporal_states, temporal_mask, dependencies
    inst,       \* per splitter object: the attributes set on it
    registry,   \* the names registered in the model graph, in order
    outcome,    \* how the last construction ended
    cache,      \* per property and splitter: the stored tensor, if any
    computed,   \* per property and splitter: executions of the property body
    layers,     \* per splitter: dense layers built
    hits,       \* per property and splitter: an access was served from the store
    lastOp,     \* the last method called
    ret         \* what it returned

vars == <<base, inst, registry, outcome, cache, computed, layers, hits,
          lastOp, ret>>

(***************************************************************************)
(* Tensors: a shape and the elements in row-major order.                   *)
(***************************************************************************)
RECURSIVE Prod(_)
Prod(shape) == IF shape = <<>> THEN 1 ELSE Head(shape) * Prod(Tail(shape))

Tensor(shape, data) == [kind |-> "tensor", shape |-> shape, data |-> data]
NoTensor == [kind |-> "none", shape |-> <<>>, data |-> <<>>]
OpError(e) == [kind |-> e, shape |-> <<>>, data |-> <<>>]
IsTensor(t) == t.kind = "tensor"

\* Element (b, i) of a rank-2 tensor and (b, i, j) of a rank-3 tensor,
\* indices from 0.
At2(t, b, i) == t.data[b * t.shape[2] + i + 1]
At3(t, b, i, j) == t.data[(b * t.shape[2] + i) * t.shape[3] + j + 1]

\* tf.reshape: the same elements under a new shape of the same size.
tf_reshape(t, shape) ==
    IF ~IsTensor(t) THEN t
    ELSE IF Prod(shape) = Len(t.data) THEN Tensor(shape, t.data)
    ELSE OpError("InvalidArgumentError")

\* tf.expand_dims(t, axis): a dimension of 1 inserted at axis (from 0).
tf_expand_dims(t, axis) ==
    Tensor(SubSeq(t.shape, 1, axis) \o <<1>>
               \o SubSeq(t.shape, axis + 1, Len(t.shape)),
           t.data)

\* tf.stack(ts, axis): the tensors of ts packed along a new axis.
tf_stack(ts, axis) ==
    LET n == Len(ts)
        sh == ts[1].shape
        outer == Prod(SubSeq(sh, 1, axis))
        inner == Prod(SubSeq(sh, axis + 1, Len(sh)))
    IN Tensor(SubSeq(sh, 1, axis) \o <<n>> \o SubSeq(sh, axis + 1, Len(sh)),
              [i \in 1..(outer * n * inner) |->
                  LET z == i - 1
                      o == z \div (n * inner)
                      k == (z \div inner) % n
                      j == z % inner
                  IN ts[k + 1].data[o * inner + j + 1]])

\* tf.squeeze(t, axis): the dimension at axis, which must be 1, removed.
tf_squeeze(t, axis) ==
    IF ~IsTensor(t) THEN t
    ELSE IF t.shape[axis + 1] # 1 THEN OpError("InvalidArgumentError")
    ELSE Tensor(SubSeq(t.shape, 1, axis)
                    \o SubSeq(t.shape, axis + 2, Len(t.shape)),
                t.data)

\* Kernel of the dense layer (a trainable variable; the value is arbitrary).
KernelAt(f, p) == f + p

RECURSIVE Dot(_, _, _, _)
Dot(t, row, p, f) ==
    IF f = 0 THEN 0
    ELSE t.data[row * t.shape[3] + f] * KernelAt(f, p) + Dot(t, row, p, f - 1)

Activate(activation, x) ==
    IF activation = "relu" THEN (IF x < 0 THEN 0 ELSE x) ELSE x

\* tf.layers.dense(states, units, activation) over the last axis.
tf_layers_dense(states, units, activation) ==
    Tensor(<<states.shape[1], states.shape[2], units>>,
           [i \in 1..(states.shape[1] * states.shape[2] * units) |->
               Activate(activation,
                        Dot(states, (i - 1) \div units, (i - 1) % units,
                            states.shape[3]))])

\* A bug split_by_factor could have: the factor multiplied into the batch axis.
split_by_factor_batch(tensor_3d, factor) ==
    LET orig_shape == tensor_3d.shape
        batch_size == orig_shape[1]
        max_time == orig_shape[2]
        state_dim == tensor_3d.shape[3]
    IN tf_reshape(tensor_3d,
                  <<batch_size * factor, max_time, state_dim \div factor>>)

split_by_factor(tensor_3d, factor) ==
    LET orig_shape == tensor_3d.shape
        batch_size == orig_shape[1]
        max_time == orig_shape[2]
        state_dim == tensor_3d.shape[3]
    IN tf_reshape(tensor_3d,
                  <<batch_size, max_time * factor, state_dim \div factor>>)

(***************************************************************************)
(* The parent and the splitter objects.                                    *)
(***************************************************************************)
\* The parents the model draws from: states [B, T, F] with distinct elements,
\* the mask [B, T] of a batch of sequences padded to the longest, T (1 on the
\* positions before a row's length, 0 on the padding), and the parent's own
\* dependency set.
SequenceMask(lens, T) ==
    [i \in 1..(Len(lens) * T) |->
        IF (i - 1) % T < lens[((i - 1) \div T) + 1] THEN 1 ELSE 0]

Bases(Bs, Ts, Fs, Ds) ==
    UNION { { [states |-> Tensor(<<d[1], d[2], d[3]>>,
                                 [i \in 1..(d[1] * d[2] * d[3]) |-> i - 3]),
               mask |-> Tensor(<<d[1], d[2]>>, SequenceMask(lens, d[2])),
               deps |-> ds] :
                 lens \in { l \in [1..d[1] -> 0..d[2]] :
                               \E b \in 1..d[1] : l[b] = d[2] },
                 ds \in Ds } :
            d \in Bs \X Ts \X Fs }

AllAttrs == {"name", "parent", "factor", "projection_size", "activation"}

Absent == [attrs |-> {}, parent |-> Base, factor |-> 1,
           projection_size |-> 0, activation |-> "unset"]

Instance(parent, factor, projection_size, activation) ==
    [attrs |-> AllAttrs, parent |-> parent, factor |-> factor,
     projection_size |-> projection_size, activation |-> activation]

NoCall == [op |-> "none", self |-> Base, dataset |-> "none", train |-> FALSE]
NoRet == [kind |-> "none"]
NoOutcome == [kind |-> "none", part |-> Base, F |-> 1, factor |-> 1]

InitRest ==
    /\ cache = [p \in Props |-> [s \in Splitters |-> NoTensor]]
    /\ computed = [p \in Props |-> [s \in Splitters |-> 0]]
    /\ layers = [s \in Splitters |-> 0]
    /\ hits = [p \in Props |-> [s \in Splitters |-> FALSE]]
    /\ lastOp = NoCall
    /\ ret = NoRet
    /\ outcome = NoOutcome

(***************************************************************************)
(* SequenceSplitter.__init__                                               *)
(***************************************************************************)
\* The names bound where line 34 is evaluated: the parameters of __init__
\* and the names the module imports or defines.
InitLocals == {"self", "parent", "factor", "projection_size",
               "projection_activation"}
ModuleGlobals == {"Callable", "Set", "tf", "check_argument_types", "tensor",
                  "Dataset", "ModelPart", "FeedDict", "TemporalStateful",
                  "SequenceSplitter", "split_by_factor"}
NameBound(n) == n \in InitLocals \cup ModuleGlobals

\* ModelPart.__init__(self, name=...): the part enters the graph under name.
ModelPart_init(reg, s, name) == Append(reg, [part |-> s, name |-> name])

\* One construction SequenceSplitter(parent, factor, projection_size,
\* projection_activation) of the object s, the parent being the base. The
\* arguments are of the annotated types, so check_argument_types() passes.
\* ModelPart.__init__ runs and lines 31-33 assign before line 34 looks the name
\* activation up; only with that name bound are line 34's assignment and the
\* check of lines 36-41 reached.
SequenceSplitter_init(s, factor, projection_size, projection_activation) ==
    LET state_dim == base.states.shape[3]
        assigned == [attrs |-> {"name", "parent", "factor", "projection_size"},
                     parent |-> Base, factor |-> factor,
                     projection_size |-> projection_size,
                     activation |-> "unset"]
        result(k) == [kind |-> k, part |-> s, F |-> state_dim,
                      factor |-> factor]
    IN
    /\ inst[s].attrs = {}
    /\ \A q \in Splitters : q < s => inst[q].attrs # {}
    /\ registry' = ModelPart_init(registry, s, "sequence_split")
    /\ IF ~NameBound("activation")
       THEN /\ inst' = [inst EXCEPT ![s] = assigned]
            /\ outcome' = result("NameError")
       ELSE /\ inst' = [inst EXCEPT ![s] =
                           Instance(Base, factor, projection_size,
                                    projection_activation)]
            /\ outcome' = result(IF state_dim % factor # 0
                                 THEN "ValueError" ELSE "ok")
    /\ UNCHANGED <<base, cache, computed, layers, hits, lastOp, ret>>

Init ==
    /\ base \in Bases({1}, {1}, 1..MaxF, {{Base}})
    /\ inst = [s \in Splitters |-> Absent]
    /\ registry = <<>>
    /\ InitRest

Next ==
    \E s \in Splitters, factor \in 1..MaxFactor, ps \in ProjSizes,
       act \in Activations :
        SequenceSplitter_init(s, factor, ps, act)

Spec == Init /\ [][Next]_vars

\* C1: whenever the parent's feature dimension is not divisible by the
\* factor, the construction ends in the ValueError about divisibility, and no
\* tensor of the splitter has been built.
C1_NotDivisibleRaisesValueError ==
    (outcome.kind # "none" /\ outcome.F % outcome.factor # 0)
        => /\ outcome.kind = "ValueError"
           /\ \A p \in Props : ~IsTensor(cache[p][outcome.part])

\* C4: a construction ends in one of two ways: complete, with parent, factor,
\* projection size and activation stored, when the factor divides the feature
\* dimension, and in the ValueError otherwise.
C4_TwoOutcomes ==
    outcome.kind # "none"
        => IF outcome.F % outcome.factor = 0
           THEN outcome.kind = "ok" /\ inst[outcome.part].attrs = AllAttrs
           ELSE outcome.kind = "ValueError"

\* C7: no two parts registered in the graph carry the same name.
C7_NamesUnique ==
    \A i, j \in 1..Len(registry) :
        i # j => registry[i].name # registry[j].name

(***************************************************************************)
(* temporal_states, temporal_mask (both under @tensor) and feed_dict       *)
(***************************************************************************)
Call(op, s) == [op |-> op, self |-> s, dataset |-> "none", train |-> FALSE]
\* The object s exists and the attributes of names are set on it.
Reads(s, names) == inst[s].attrs # {} /\ names \subseteq inst[s].attrs

\* self.parent.temporal_states and self.parent.temporal_mask
parent_temporal_states(s) == base.states
parent_temporal_mask(s) == base.mask

\* A fix of line 50 that temporal_states could have had: split the tensor
\* held by the local variable.
temporal_states_projected(s) ==
    LET states == IF inst[s].projection_size # 0
                  THEN tf_layers_dense(parent_temporal_states(s),
                                       inst[s].projection_size,
                                       inst[s].activation)
                  ELSE parent_temporal_states(s)
    IN split_by_factor(states, inst[s].factor)

\* The body of temporal_states.
temporal_states_func(s) ==
    LET states == IF inst[s].projection_size # 0
                  THEN tf_layers_dense(parent_temporal_states(s),
                                       inst[s].projection_size,
                                       inst[s].activation)
                  ELSE parent_temporal_states(s)
    IN split_by_factor(parent_temporal_states(s), inst[s].factor)

\* A bug temporal_mask could have: the whole mask tiled factor times, in
\* place of each entry repeated factor times.
temporal_mask_tiled(s) ==
    LET m == parent_temporal_mask(s)
        double_mask == tf_stack([k \in 1..inst[s].factor |->
                                    tf_expand_dims(m, 2)], 1)
    IN tf_reshape(double_mask, <<m.shape[1], m.shape[2] * inst[s].factor>>)

\* The body of temporal_mask.
temporal_mask_func(s) ==
    LET double_mask == tf_stack([k \in 1..inst[s].factor |->
                                    tf_expand_dims(parent_temporal_mask(s), 2)],
                                2)
    IN tf_squeeze(split_by_factor(double_mask, inst[s].factor), 2)

\* The @tensor decorator: whether the attribute that stores the value exists.
HasAttr(p, s) == cache[p][s].kind # "none"

\* An access to the property p of s whose body yields value and builds
\* built dense layers; the body runs only when nothing is stored yet, and what
\* it returns is stored (nothing is, when it raises).
TensorAccess(p, s, value, built) ==
    /\ lastOp' = Call(p, s)
    /\ IF HasAttr(p, s)
       THEN /\ ret' = cache[p][s]
            /\ hits' = [hits EXCEPT ![p][s] = TRUE]
            /\ UNCHANGED <<cache, computed, layers>>
       ELSE /\ computed[p][s] < MaxAccess
            /\ computed' = [computed EXCEPT ![p][s] = @ + 1]
            /\ layers' = [layers EXCEPT ![s] = @ + built]
            /\ ret' = value
            /\ cache' = IF IsTensor(value)
                        THEN [cache EXCEPT ![p][s] = value] ELSE cache
            /\ UNCHANGED hits
    /\ UNCHANGED <<base, inst, registry, outcome>>

\* A plain property in place of @tensor: the body runs on every access.
PlainAccess(p, s, value, built) ==
    /\ lastOp' = Call(p, s)
    /\ computed[p][s] < MaxAccess
    /\ computed' = [computed EXCEPT ![p][s] = @ + 1]
    /\ layers' = [layers EXCEPT ![s] = @ + built]
    /\ ret' = value
    /\ cache' = IF IsTensor(value) THEN [cache EXCEPT ![p][s] = value] ELSE cache
    /\ UNCHANGED <<base, inst, registry, outcome, hits>>

\* The attributes of self the body of temporal_states reads.
StatesReads(s) ==
    {"parent", "factor", "projection_size"}
        \cup (IF inst[s].projection_size # 0 THEN {"activation"} ELSE {})

temporal_states_plain(s) ==
    /\ Reads(s, StatesReads(s))
    /\ PlainAccess("temporal_states", s, temporal_states_func(s),
                   IF inst[s].projection_size # 0 THEN 1 ELSE 0)

temporal_states(s) ==
    /\ Reads(s, StatesReads(s))
    /\ TensorAccess("temporal_states", s, temporal_states_func(s),
                    IF inst[s].projection_size # 0 THEN 1 ELSE 0)

temporal_mask(s) ==
    /\ Reads(s, {"parent", "factor"})
    /\ TensorAccess("temporal_mask", s, temporal_mask_func(s), 0)

EmptyFeed == [kind |-> "mapping", map |-> {}]

\* A bug feed_dict could have: feeding the train flag, as other parts do.
feed_dict_train_mode(s, dataset, train) ==
    /\ Reads(s, {})
    /\ lastOp' = [op |-> "feed_dict", self |-> s, dataset |-> dataset,
                  train |-> train]
    /\ ret' = [kind |-> "mapping", map |-> {<<"train_mode", train>>}]
    /\ UNCHANGED <<base, inst, registry, outcome, cache, computed, layers,
                   hits>>

feed_dict(s, dataset, train) ==
    /\ Reads(s, {})
    /\ lastOp' = [op |-> "feed_dict", self |-> s, dataset |-> dataset,
                  train |-> train]
    /\ ret' = EmptyFeed
    /\ UNCHANGED <<base, inst, registry, outcome, cache, computed, layers,
                   hits>>

\* One splitter over the parent, holding what lines 31-34 are written to
\* store, with a factor that passes the check of line 37.
InitTensors ==
    /\ base \in Bases(1..MaxB, 1..MaxT, 1..MaxF, {{Base}})
    /\ \E factor \in 1..MaxFactor, ps \in ProjSizes, act \in Activations :
          /\ base.states.shape[3] % factor = 0
          /\ inst = [s \in Splitters |->
                        IF s = 1 THEN Instance(Base, factor, ps, act)
                        ELSE Absent]
    /\ registry = <<[part |-> 1, name |-> "sequence_split"]>>
    /\ InitRest

NextTensors ==
    \E s \in Splitters :
        \/ temporal_states(s)
        \/ temporal_mask(s)
        \/ \E dataset \in Datasets, train \in BOOLEAN :
              feed_dict(s, dataset, train)

SpecTensors == InitTensors /\ [][NextTensors]_vars

\* The splitter the last call was made on, its factor, and the dimensions of
\* the parent's states.
Self == lastOp.self
PB == base.states.shape[1]
PT == base.states.shape[2]
PF == base.states.shape[3]

\* C2: temporal_states is the row-major reshape of the parent's states: shape
\* [B, T*factor, F/factor], element (b, t*factor + k, j) is the parent's
\* element (b, t, k*(F/factor) + j), and no element is added or lost.
C2_StatesAreReshape ==
    (lastOp.op = "temporal_states" /\ PF % inst[Self].factor = 0)
        => LET f == inst[Self].factor
               w == PF \div f
           IN /\ IsTensor(ret)
              /\ ret.shape = <<PB, PT * f, w>>
              /\ Len(ret.data) = PB * PT * PF
              /\ \A b \in 0..(PB - 1), t \in 0..(PT - 1), k \in 0..(f - 1),
                    j \in 0..(w - 1) :
                     At3(ret, b, t * f + k, j) = At3(base.states, b, t, k * w + j)

C2_Witness ==
    /\ lastOp.op = "temporal_states"
    /\ inst[Self].factor >= 2
    /\ PB >= 2 /\ PT >= 2 /\ PF \div inst[Self].factor >= 2
    /\ IsTensor(ret)

\* C3: temporal_mask has shape [B, T*factor] and every position of
\* [t*factor, t*factor + factor) holds the parent's mask value at (b, t).
C3_MaskReplicated ==
    lastOp.op = "temporal_mask"
        => LET f == inst[Self].factor
           IN /\ IsTensor(ret)
              /\ ret.shape = <<PB, PT * f>>
              /\ Len(ret.data) = PB * PT * f
              /\ \A b \in 0..(PB - 1), t \in 0..(PT - 1) :
                    \A p \in (t * f)..(t * f + f - 1) :
                        At2(ret, b, p) = At2(base.mask, b, t)

C3_Witness ==
    /\ lastOp.op = "temporal_mask"
    /\ inst[Self].factor >= 2
    /\ PB >= 2 /\ PT >= 2
    /\ At2(base.mask, 1, 0) = 1 /\ At2(base.mask, 1, 1) = 0
    /\ IsTensor(ret)

\* C6: the body of each property runs at most once and at most one dense
\* layer is built; once a value is stored, no later step changes it or runs
\* the body again; every access returns the stored value.
C6_ComputedOnce ==
    [][\A p \in Props, s \in Splitters :
          /\ computed'[p][s] <= 1
          /\ layers'[s] <= 1
          /\ HasAttr(p, s) => /\ cache'[p][s] = cache[p][s]
                              /\ computed'[p][s] = computed[p][s]
          /\ HasAttr("temporal_states", s) => layers'[s] = layers[s]
          /\ (lastOp'.op = p /\ lastOp'.self = s)
                => IsTensor(ret') /\ ret' = cache'[p][s]]_vars

C6_Witness ==
    /\ \A p \in Props : hits[p][1] /\ computed[p][1] = 1
    /\ inst[1].projection_size # 0
    /\ layers[1] = 1
    /\ lastOp.op = "temporal_states"
    /\ ret = cache["temporal_states"][1]

\* C8: a call of feed_dict returns the empty mapping and leaves the splitter,
\* its cached tensors and the graph as they were.
C8_FeedDictEmpty ==
    [][lastOp'.op = "feed_dict"
          => /\ ret' = EmptyFeed
             /\ UNCHANGED <<base, inst, registry, cache, computed, layers,
                            hits>>]_vars

C8_Witness ==
    /\ lastOp.op = "feed_dict"
    /\ lastOp.train
    /\ lastOp.dataset = "batch"
    /\ ret = EmptyFeed
    /\ \A p \in Props : IsTensor(cache[p][Self])

\* C9: whatever projection_size and projection_activation are, temporal_states
\* is split_by_factor of the parent's unprojected states: feature dimension
\* F/factor, the elements of the parent, the value of a splitter without
\* projection.
C9_ProjectionIgnored ==
    lastOp.op = "temporal_states"
        => /\ IsTensor(ret)
           /\ ret.shape[3] = PF \div inst[Self].factor
           /\ ret.data = base.states.data
           /\ ret = split_by_factor(base.states, inst[Self].factor)

C9_Witness ==
    /\ lastOp.op = "temporal_states"
    /\ inst[Self].projection_size # 0
    /\ inst[Self].projection_size # PF
    /\ inst[Self].activation = "relu"
    /\ inst[Self].factor >= 2
    /\ IsTensor(ret)

(***************************************************************************)
(* get_dependencies                                                        *)
(***************************************************************************)
\* Depth of nested calls at which the interpreter gives up the recursion of
\* line 64; deeper than any chain of distinct splitters.
RecursionLimit == NSplit + 2

DepSet(S) == [kind |-> "set", deps |-> S]

RECURSIVE get_dependencies_func(_, _)

\* A bug get_dependencies could have: the splitter itself left out.
get_dependencies_parent_only(p, depth) ==
    IF p \notin Splitters THEN DepSet(base.deps)
    ELSE IF depth >= RecursionLimit
         THEN [kind |-> "RecursionError", deps |-> {}]
    ELSE get_dependencies_func(inst[p].parent, depth + 1)

\* p.get_dependencies() called at the given depth of nested calls; a parent
\* that is no splitter answers with its own dependency set.
get_dependencies_func(p, depth) ==
    IF p \notin Splitters THEN DepSet(base.deps)
    ELSE IF depth >= RecursionLimit
         THEN [kind |-> "RecursionError", deps |-> {}]
    ELSE LET to_return == {p}
             parent_deps == get_dependencies_func(inst[p].parent, depth + 1)
         IN IF parent_deps.kind # "set" THEN parent_deps
            ELSE DepSet(to_return \cup parent_deps.deps)

get_dependencies(s) ==
    /\ Reads(s, {"parent"})
    /\ lastOp' = Call("get_dependencies", s)
    /\ ret' = get_dependencies_func(s, 0)
    /\ UNCHANGED <<base, inst, registry, outcome, cache, computed, layers,
                   hits>>

\* A graph of splitters whose parent attributes point at the base or at any
\* splitter (an attribute can be assigned after construction).
InitDeps ==
    /\ base \in Bases({1}, {1}, {1}, {{Base}, {Base, Extra}})
    /\ \E par \in [Splitters -> Splitters \cup {Base}] :
          inst = [s \in Splitters |-> Instance(par[s], 1, 0, "None")]
    /\ registry = [s \in Splitters |-> [part |-> s, name |-> "sequence_split"]]
    /\ InitRest

NextDeps == \E s \in Splitters : get_dependencies(s)

SpecDeps == InitDeps /\ [][NextDeps]_vars

\* The parts met by following parent links from s, up to n links.
RECURSIVE Ancestor(_, _)
Ancestor(s, n) ==
    IF n = 0 \/ s \notin Splitters THEN s ELSE Ancestor(inst[s].parent, n - 1)

Chain(s) == { Ancestor(s, n) : n \in 0..NSplit } \cap Splitters
Acyclic(s) == Ancestor(s, NSplit) \notin Splitters

\* C5: get_dependencies returns this splitter united with what the parent
\* returns; on an acyclic chain that is every splitter of the chain and every
\* dependency of the innermost parent.
C5_SelfAndParentDeps ==
    (lastOp.op = "get_dependencies" /\ Acyclic(Self))
        => /\ ret.kind = "set"
           /\ ret.deps = Chain(Self) \cup base.deps

C5_Witness ==
    /\ lastOp.op = "get_dependencies"
    /\ Acyclic(Self)
    /\ Cardinality(Chain(Self)) >= 2
    /\ Extra \in base.deps
    /\ ret.kind = "set"

\* C10: every call of get_dependencies returns a set, whatever graph of parent
\* links it starts from.
C10_AlwaysReturnsSet ==
    lastOp.op = "get_dependencies" => ret.kind = "set"
====
